---- MODULE Spec2Model ----
(***************************************************************************)
(* catmon: the reed switch event loop (the gate), the event handler (the   *)
(* capture / classify / upload / tweet run) and the test mode manager.     *)
(* Time is the wall clock in whole seconds; strings are real strings.      *)
(***************************************************************************)
EXTENDS Integers, Sequences, FiniteSets, TLC

\* ------------------------------------------------------------------ bounds
MaxTime == 7          \* the clock stops advancing here
MaxTransitions == 3   \* wait_for_edge returns at most this often
MaxElapse == 1        \* whole seconds the clock may advance during a capture

\* ------------------------------------------------------- program constants
EVENT_GAP == 5
TWEET_BOILER_PLATE_TEXT == "Auto-tweet from catmon2:"
test_file_prefix == "test_"
image_pattern_default == "./images/unseen*"

\* Python's None for the values that are times, file names or label tuples
None == <<>>
\* Python's None where the other values are strings (a label, a model name)
NoneStr == "<None>"
\* Python's None where the other values are numbers (a probability)
NoneNum == 0 - 1

LOW == "low"
HIGH == "high"

VARIABLES
    \* catmon_tester (CatmonTestModeManager) and the capability switches
    mode_no_gpio, mode_sim_cam_image, is_testing,
    GDRIVE_ON, TWEET_ON, CLASSIFY_ON,
    \* the environment: the clock and the files of the working directory
    now, files,
    \* Catmon.__init__ / reed_switch_event_loop
    pc, exc, prev_event_time, event_time, teardowns,
    \* reed_switch_event_handler: position and locals of the active call
    hpc, h_event_time, image_file, cfn,
    \* observation: the collaborator calls of the current run, the last sensor
    \* transition the loop has decided on, the transitions seen and admitted,
    \* the runs started and ended, where the run failed
    calls, last, n_transitions, n_admitted, matched,
    runs_started, runs_ended, run_error

cfgvars == <<mode_no_gpio, mode_sim_cam_image, is_testing,
             GDRIVE_ON, TWEET_ON, CLASSIFY_ON>>
envvars == <<now, files>>
loopvars == <<pc, exc, prev_event_time, event_time, teardowns>>
hvars == <<hpc, h_event_time, image_file, cfn>>
gatevars == <<last, n_transitions, n_admitted, matched>>
obsvars == <<calls, gatevars, runs_started, runs_ended, run_error>>
vars == <<cfgvars, envvars, loopvars, hvars, obsvars>>

\* ---------------------------------------------------------- input domains
\* the calendar part of datetime.now(): a morning in June, Christmas afternoon
DateTimes == { [hour |-> 9, day |-> 1, month |-> 6],
               [hour |-> 14, day |-> 25, month |-> 12] }
NoDateTime == [hour |-> 0, day |-> 0, month |-> 0]

\* what catmonic.predict_catmon_image may return
Labels == {"boo", "simba", "unknown", "tiger", NoneStr}
Probabilities == {420}     \* in thousandths: 0.42
ModelNames == {"m1"}

\* what glob.glob(image_pattern) may return
GlobResults == { <<>>, <<"./images/unseen_boo.jpg">>,
                 <<"./images/unseen_boo.jpg", "./images/unseen_simba.jpg">> }

\* -------------------------------------------------- CatmonTestModeManager
\* faulty variant of __init__: all() in place of any()
DerivedIsTestingAll(no_gpio, sim_cam_image) == no_gpio /\ sim_cam_image

\* __init__: is_testing is True if any mode is True
DerivedIsTesting(no_gpio, sim_cam_image) == no_gpio \/ sim_cam_image

\* os.path.basename of a path of ./images
basename(path) ==
    CASE path = "./images/unseen_boo.jpg" -> "unseen_boo.jpg"
      [] path = "./images/unseen_simba.jpg" -> "unseen_simba.jpg"
      [] OTHER -> path

\* get_test_image(image_pattern=None, copy_to_cwd=True) on the listing glob
\* returned and the random choice made in it: the name returned (None when
\* nothing matched) and the working directory afterwards
TestImageName(image_choice) == test_file_prefix \o basename(image_choice)

\* faulty variant of get_test_image: the test image is copied whether or not
\* the file exists
get_test_image_always_copies(image_list, i, cwd) ==
    IF image_list = <<>>
    THEN [name |-> None, cwd |-> cwd, copied |-> FALSE]
    ELSE [name |-> <<test_file_prefix \o basename(image_list[i])>>,
          cwd |-> cwd \cup {test_file_prefix \o basename(image_list[i])},
          copied |-> TRUE]

get_test_image(image_list, i, cwd) ==
    IF image_list = <<>>
    THEN [name |-> None, cwd |-> cwd, copied |-> FALSE]
    ELSE LET test_image_name == TestImageName(image_list[i])
         IN  [name |-> <<test_image_name>>,
              cwd |-> cwd \cup {test_image_name},
              copied |-> test_image_name \notin cwd]

\* ------------------------------------------------------------ pure helpers
\* faulty variant of secs_diff: the two datetimes swapped
secs_diff_swapped(newer_datetime, older_datetime) == older_datetime - newer_datetime

\* Catmon.secs_diff
secs_diff(newer_datetime, older_datetime) == newer_datetime - older_datetime

\* faulty variant of the test of line 353: <= in place of <
WithinEventGapInclusive(t, prev) == (t - prev) <= EVENT_GAP

\* the test of line 353: the event is within the event gap
WithinEventGap(t, prev) == secs_diff(t, prev) < EVENT_GAP

\* datetime.now().strftime('%Y-%m-%d_%H%M%S'), one name per second
strftime(t) == "2023-10-01_00000" \o ToString(t)

\* faulty variant of lines 377-380: the prefix is left out
GeneratedImageFileNoPrefix(testing, t) == strftime(t) \o ".jpg"

\* lines 377-380: the generated image file name
GeneratedImageFile(testing, t) ==
    (IF testing THEN test_file_prefix ELSE "") \o strftime(t) \o ".jpg"

\* setup_gdrive, lines 270-277: the folders dictionary read from the config
gdrive_folders_dict ==
    [ gdrive_default_folder |-> "catmon", gdrive_default_folder_id |-> "id_default",
      gdrive_boo_folder |-> "boo", gdrive_boo_folder_id |-> "id_boo",
      gdrive_simba_folder |-> "simba", gdrive_simba_folder_id |-> "id_simba",
      gdrive_unknown_folder |-> "unknown", gdrive_unknown_folder_id |-> "id_unknown",
      gdrive_auto_discard_folder |-> "discard",
      gdrive_auto_discard_folder_id |-> "id_discard" ]

\* a function's result: a value, or the ValueError it raised
Ok(v) == [raised |-> FALSE, value |-> v]
ValueError == [raised |-> TRUE, value |-> <<>>]

\* faulty variant of get_gdrive_folder_for_cfn: a label that is not
\* recognised is routed to the default folder
get_gdrive_folder_for_cfn_default(cfn_label) ==
    CASE cfn_label = "boo" ->
           Ok(<<gdrive_folders_dict.gdrive_boo_folder,
                gdrive_folders_dict.gdrive_boo_folder_id>>)
      [] cfn_label = "simba" ->
           Ok(<<gdrive_folders_dict.gdrive_simba_folder,
                gdrive_folders_dict.gdrive_simba_folder_id>>)
      [] cfn_label = "unknown" ->
           Ok(<<gdrive_folders_dict.gdrive_unknown_folder,
                gdrive_folders_dict.gdrive_unknown_folder_id>>)
      [] OTHER ->
           Ok(<<gdrive_folders_dict.gdrive_default_folder,
                gdrive_folders_dict.gdrive_default_folder_id>>)

\* faulty variant of get_gdrive_folder_for_cfn: the folder id of simba is
\* taken from the entry of boo
get_gdrive_folder_for_cfn_mixed(cfn_label) ==
    CASE cfn_label = "boo" ->
           Ok(<<gdrive_folders_dict.gdrive_boo_folder,
                gdrive_folders_dict.gdrive_boo_folder_id>>)
      [] cfn_label = "simba" ->
           Ok(<<gdrive_folders_dict.gdrive_simba_folder,
                gdrive_folders_dict.gdrive_boo_folder_id>>)
      [] cfn_label = "unknown" ->
           Ok(<<gdrive_folders_dict.gdrive_unknown_folder,
                gdrive_folders_dict.gdrive_unknown_folder_id>>)
      [] OTHER -> ValueError

\* faulty variant of get_gdrive_folder_for_cfn: the label None is routed to
\* the default folder
get_gdrive_folder_for_cfn_none_default(cfn_label) ==
    CASE cfn_label = "boo" ->
           Ok(<<gdrive_folders_dict.gdrive_boo_folder,
                gdrive_folders_dict.gdrive_boo_folder_id>>)
      [] cfn_label = "simba" ->
           Ok(<<gdrive_folders_dict.gdrive_simba_folder,
                gdrive_folders_dict.gdrive_simba_folder_id>>)
      [] cfn_label = "unknown" ->
           Ok(<<gdrive_folders_dict.gdrive_unknown_folder,
                gdrive_folders_dict.gdrive_unknown_folder_id>>)
      [] cfn_label = NoneStr ->
           Ok(<<gdrive_folders_dict.gdrive_default_folder,
                gdrive_folders_dict.gdrive_default_folder_id>>)
      [] OTHER -> ValueError

get_gdrive_folder_for_cfn(cfn_label) ==
    CASE cfn_label = "boo" ->
           Ok(<<gdrive_folders_dict.gdrive_boo_folder,
                gdrive_folders_dict.gdrive_boo_folder_id>>)
      [] cfn_label = "simba" ->
           Ok(<<gdrive_folders_dict.gdrive_simba_folder,
                gdrive_folders_dict.gdrive_simba_folder_id>>)
      [] cfn_label = "unknown" ->
           Ok(<<gdrive_folders_dict.gdrive_unknown_folder,
                gdrive_folders_dict.gdrive_unknown_folder_id>>)
      [] OTHER -> ValueError

\* faulty variant of lines 446-448: without a classification the image goes
\* to the folder of the unknown cats
TargetFolderUnknown(classify_on, cfn_label) ==
    IF classify_on
    THEN get_gdrive_folder_for_cfn(cfn_label)
    ELSE Ok(<<gdrive_folders_dict.gdrive_unknown_folder,
              gdrive_folders_dict.gdrive_unknown_folder_id>>)

\* lines 440-448: the target folder of the upload
TargetFolder(classify_on, cfn_label) ==
    IF classify_on
    THEN get_gdrive_folder_for_cfn(cfn_label)
    ELSE Ok(<<gdrive_folders_dict.gdrive_default_folder,
              gdrive_folders_dict.gdrive_default_folder_id>>)

\* faulty variant of line 519: noon still has the morning greeting
GreetingNoonMorning(dt) ==
    (IF dt.hour <= 12 THEN "Good morning"
     ELSE IF dt.hour < 18 THEN "Good afternoon"
     ELSE "Good evening")
    \o (IF dt.day = 25 /\ dt.month = 12 THEN " and Happy Christmas" ELSE "")

\* lines 519-527
Greeting(dt) ==
    (IF dt.hour < 12 THEN "Good morning"
     ELSE IF 12 <= dt.hour /\ dt.hour < 18 THEN "Good afternoon"
     ELSE "Good evening")
    \o (IF dt.day = 25 /\ dt.month = 12 THEN " and Happy Christmas" ELSE "")

\* the format spec .1% on a probability held in thousandths
Percent1(p) == ToString(p \div 10) \o "." \o ToString(p % 10) \o "%"

get_tweet_text_for_cfn(cfn_label, cfn_model_name, cfn_probability, image, dt) ==
    LET tail == "\n\n" \o TWEET_BOILER_PLATE_TEXT \o " " \o image
        says == "Catmonic (using " \o cfn_model_name \o ") says the likelihood "
    IN  CASE cfn_label = "boo" ->
               Ok(Greeting(dt) \o " Boo, aka Fluff Bag!\n\n" \o says
                  \o "of Boo is " \o Percent1(cfn_probability) \o tail)
          [] cfn_label = "simba" ->
               Ok(Greeting(dt) \o " Simba, aka Mr Handsome!\n\n" \o says
                  \o "of Simba is " \o Percent1(cfn_probability) \o tail)
          [] cfn_label = "unknown" ->
               Ok(Greeting(dt) \o " cat of mystery!\n\n" \o says
                  \o "is " \o Percent1(cfn_probability) \o tail)
          [] OTHER -> ValueError

\* faulty variant of lines 462-470: a label that is not recognised falls back
\* to the text without a classification
TweetTextFallback(classify_on, c, image, dt) ==
    IF classify_on /\ ~get_tweet_text_for_cfn(c[1], c[3], c[2], image, dt).raised
    THEN get_tweet_text_for_cfn(c[1], c[3], c[2], image, dt)
    ELSE Ok(TWEET_BOILER_PLATE_TEXT \o " " \o image)

\* lines 462-474: the text of the tweet
TweetText(classify_on, c, image, dt) ==
    IF classify_on
    THEN get_tweet_text_for_cfn(c[1], c[3], c[2], image, dt)
    ELSE Ok(TWEET_BOILER_PLATE_TEXT \o " " \o image)

\* one collaborator call of a run, as observed from outside
Call(op, a, b, ok) == [op |-> op, a |-> a, b |-> b, ok |-> ok]

\* ------------------------------------------------------------------- Init
NoCfn == <<NoneStr, NoneNum, NoneStr>>

\* where an iteration of the while loop of reed_switch_event_loop blocks:
\* in the single call of the handler (line 324) or in wait_for_edge (line 329)
LoopTop(no_gpio) == IF no_gpio THEN "single" ELSE "wait"

Init ==
    /\ mode_no_gpio \in BOOLEAN
    /\ mode_sim_cam_image \in BOOLEAN
    /\ is_testing = DerivedIsTesting(mode_no_gpio, mode_sim_cam_image)
    /\ GDRIVE_ON \in BOOLEAN
    /\ TWEET_ON \in BOOLEAN
    /\ CLASSIFY_ON \in BOOLEAN
    /\ now = 0
    /\ files = {}
    /\ pc = LoopTop(mode_no_gpio)
    /\ exc = "none"
    /\ prev_event_time = None
    /\ event_time = None
    /\ teardowns = 0
    /\ hpc = "idle"
    /\ h_event_time = NoDateTime
    /\ image_file = ""
    /\ cfn = NoCfn
    /\ calls = <<>>
    /\ last = None
    /\ n_transitions = 0
    /\ n_admitted = 0
    /\ matched = 0
    /\ runs_started = 0
    /\ runs_ended = 0
    /\ run_error = "none"

\* ------------------------------------------------- Catmon.__init__, 189-202
\* faulty variant of the exit: the teardown sits in the except of Exception
\* in place of the finally block, so a keyboard interrupt skips it
FinallyNotOnInterrupt(e) ==
    /\ pc' = "exited"
    /\ exc' = e
    /\ teardowns' = (IF e = "KeyboardInterrupt" THEN teardowns ELSE teardowns + 1)

\* the finally block: GPIO.cleanup() and camera.stop(), then the process ends
\* (with the exception e re-raised, if there is one)
Finally(e) ==
    /\ pc' = "exited"
    /\ exc' = e
    /\ teardowns' = teardowns + 1

\* faulty variant of the except of line 359: the error is logged, not
\* re-raised, and the loop goes on with its next iteration
RaiseInRunContinue(stage) ==
    /\ pc' = (IF mode_no_gpio THEN "single" ELSE "wait")
    /\ hpc' = "idle"
    /\ run_error' = stage
    /\ runs_ended' = runs_ended + 1
    /\ UNCHANGED <<exc, teardowns>>

\* an exception leaves the active handler call: the except of line 359 logs
\* and re-raises it, the except of line 196 logs and re-raises it
RaiseInRun(stage) ==
    /\ Finally("Exception")
    /\ hpc' = "raised"
    /\ run_error' = stage
    /\ runs_ended' = runs_ended + 1

\* faulty variant of the call of the handler: the handler is started as a
\* callback of its own and the loop goes on waiting
InvokeHandlerAsync ==
    /\ pc' = "wait"
    /\ hpc' = "capture"
    /\ \E dt \in DateTimes : h_event_time' = dt
    /\ image_file' = (IF is_testing THEN test_file_prefix ELSE "")
                        \o "2023-10-01_00000" \o ToString(now) \o ".jpg"
    /\ cfn' = <<NoneStr, NoneNum, NoneStr>>
    /\ calls' = <<>>
    /\ runs_started' = runs_started + 1
    /\ run_error' = "none"

\* faulty variant of the handler: the capture is left out
InvokeHandlerNoCapture ==
    /\ pc' = "handler"
    /\ hpc' = "classify"
    /\ \E dt \in DateTimes : h_event_time' = dt
    /\ image_file' = (IF is_testing THEN test_file_prefix ELSE "")
                        \o "2023-10-01_00000" \o ToString(now) \o ".jpg"
    /\ cfn' = <<NoneStr, NoneNum, NoneStr>>
    /\ calls' = <<>>
    /\ runs_started' = runs_started + 1
    /\ run_error' = "none"

\* ------------------------------------- reed_switch_event_handler, 363-383
\* the call of the handler: event time, generated image file name
InvokeHandler ==
    /\ pc' = "handler"
    /\ hpc' = "capture"
    /\ \E dt \in DateTimes : h_event_time' = dt
    /\ image_file' = GeneratedImageFile(is_testing, now)
    /\ cfn' = NoCfn
    /\ calls' = <<>>
    /\ runs_started' = runs_started + 1
    /\ run_error' = "none"

\* ------------------------------------------- reed_switch_event_loop, 313-361
\* faulty variant of line 339: the comparison inverted
SwitchIsLowInverted(level) == level = HIGH

\* line 339: the switch is read low after the edge
SwitchIsLow(level) == level = LOW

\* end-to-end scenario A: the switch is read high at t = 0 s, 3 s and 6 s
ScenarioTimes == <<0, 3, 6>>

\* observation of a decided transition: its event time, the level read, the
\* decision, the event time of the last transition admitted before it (ref)
\* and the transition decided before it (prev); matched counts the leading
\* transitions that follow scenario A
LastAdmitted ==
    IF last = None THEN None
    ELSE IF last[1].admitted THEN <<last[1].t>> ELSE last[1].ref

Decided(level, admitted) ==
    /\ last' = << [ t |-> event_time[1], level |-> level, admitted |-> admitted,
                    ref |-> LastAdmitted,
                    prev |-> IF last = None THEN None
                             ELSE <<[t |-> last[1].t, level |-> last[1].level,
                                     admitted |-> last[1].admitted]>> ] >>
    /\ n_transitions' = n_transitions + 1
    /\ n_admitted' = n_admitted + (IF admitted THEN 1 ELSE 0)
    /\ matched' = IF /\ matched = n_transitions
                     /\ n_transitions < Len(ScenarioTimes)
                     /\ level = HIGH
                     /\ event_time[1] = ScenarioTimes[n_transitions + 1]
                  THEN matched + 1
                  ELSE matched

\* lines 319-325: testing without GPIO, the single call of the handler
SingleShot ==
    /\ pc = "single"
    /\ mode_no_gpio
    /\ InvokeHandler
    /\ UNCHANGED <<cfgvars, envvars, exc, prev_event_time, event_time,
                   teardowns, gatevars, runs_ended>>

\* lines 329-335: wait_for_edge returns, the event time is taken
EdgeDetected ==
    /\ pc = "wait"
    /\ n_transitions < MaxTransitions
    /\ \E d \in 0..(MaxTime - now) : now' = now + d
    /\ event_time' = <<now'>>
    /\ pc' = "check"
    /\ UNCHANGED <<cfgvars, files, exc, prev_event_time, teardowns,
                   hvars, obsvars>>

\* lines 339-343: false alarm, the switch is low
FalseAlarm ==
    /\ pc = "check"
    /\ \E level \in {LOW, HIGH} :
          /\ SwitchIsLow(level)
          /\ Decided(level, FALSE)
    /\ pc' = LoopTop(mode_no_gpio)
    /\ UNCHANGED <<cfgvars, envvars, exc, prev_event_time, event_time,
                   teardowns, hvars, calls, runs_started, runs_ended, run_error>>

\* lines 347-348: the first event
FirstEvent ==
    /\ pc = "check"
    /\ \E level \in {LOW, HIGH} :
          /\ ~SwitchIsLow(level)
          /\ Decided(level, TRUE)
    /\ prev_event_time = None
    /\ InvokeHandler
    /\ UNCHANGED <<cfgvars, envvars, exc, prev_event_time, event_time,
                   teardowns, runs_ended>>

\* faulty variant of lines 353-355: the event within the gap is logged as
\* ignored and handled all the same
IgnoreEventReplayed ==
    /\ pc = "check"
    /\ \E level \in {LOW, HIGH} :
          /\ ~SwitchIsLow(level)
          /\ Decided(level, FALSE)
    /\ prev_event_time # None
    /\ WithinEventGap(event_time[1], prev_event_time[1])
    /\ InvokeHandler
    /\ UNCHANGED <<cfgvars, envvars, exc, prev_event_time, event_time,
                   teardowns, runs_ended>>

\* lines 351-355: an event within the event gap is ignored
IgnoreEvent ==
    /\ pc = "check"
    /\ \E level \in {LOW, HIGH} :
          /\ ~SwitchIsLow(level)
          /\ Decided(level, FALSE)
    /\ prev_event_time # None
    /\ WithinEventGap(event_time[1], prev_event_time[1])
    /\ pc' = LoopTop(mode_no_gpio)
    /\ UNCHANGED <<cfgvars, envvars, exc, prev_event_time, event_time,
                   teardowns, hvars, calls, runs_started, runs_ended, run_error>>

\* lines 356-357: an event after the event gap
AdmitEvent ==
    /\ pc = "check"
    /\ \E level \in {LOW, HIGH} :
          /\ ~SwitchIsLow(level)
          /\ Decided(level, TRUE)
    /\ prev_event_time # None
    /\ ~WithinEventGap(event_time[1], prev_event_time[1])
    /\ InvokeHandler
    /\ UNCHANGED <<cfgvars, envvars, exc, prev_event_time, event_time,
                   teardowns, runs_ended>>

\* faulty variant of lines 349 and 358: the time at which the run finished
AfterHandlerRunEnd ==
    IF mode_no_gpio
    THEN /\ Finally("none")
         /\ UNCHANGED prev_event_time
    ELSE /\ prev_event_time' = <<now>>
         /\ pc' = LoopTop(mode_no_gpio)
         /\ UNCHANGED <<exc, teardowns>>

\* faulty variant of lines 324-325: the break is missing
AfterHandlerNoBreak ==
    /\ prev_event_time' = event_time
    /\ pc' = LoopTop(mode_no_gpio)
    /\ UNCHANGED <<exc, teardowns>>

\* faulty variant of the return of the handler: the loop breaks after every
\* run, as it does when testing without GPIO
AfterHandlerAlwaysBreaks ==
    /\ Finally("none")
    /\ UNCHANGED prev_event_time

\* what the loop does when the handler returns: break (line 325), or
\* prev_event_time = event_time (lines 349, 358) and the next iteration
AfterHandler ==
    IF mode_no_gpio
    THEN /\ Finally("none")
         /\ UNCHANGED prev_event_time
    ELSE /\ prev_event_time' = event_time
         /\ pc' = LoopTop(mode_no_gpio)
         /\ UNCHANGED <<exc, teardowns>>

\* lines 488-490: the handler completes and returns to the loop
HandlerReturn ==
    /\ pc = "handler"
    /\ hpc = "complete"
    /\ hpc' = "idle"
    /\ h_event_time' = NoDateTime
    /\ image_file' = ""
    /\ cfn' = NoCfn
    /\ calls' = <<>>
    /\ runs_ended' = runs_ended + 1
    /\ AfterHandler
    /\ UNCHANGED <<cfgvars, envvars, event_time, gatevars, runs_started, run_error>>

\* ------------------------------------- reed_switch_event_handler, 385-490
\* faulty variant of line 404: the test mode is not looked at
AfterCaptureNoSim(sim_cam_image) == "classify"

\* what stays as it is during a stage of the handler
HandlerFrame == UNCHANGED <<cfgvars, prev_event_time, event_time, gatevars, runs_started>>
StageDone == UNCHANGED <<pc, exc, teardowns, runs_ended, run_error>>

\* the stage that follows the capture: the test mode check of line 404
AfterCapture(sim_cam_image) == IF sim_cam_image THEN "sim" ELSE "classify"

\* lines 385-394: sleep CAM_DELAY, camera.capture_file(image_file)
Capture ==
    /\ pc = "handler" /\ hpc = "capture"
    /\ \E d \in 0..MaxElapse : now + d <= MaxTime /\ now' = now + d
    /\ files' = files \cup {image_file}
    /\ calls' = Append(calls, Call("capture_file", image_file, "", TRUE))
    /\ hpc' = AfterCapture(mode_sim_cam_image)
    /\ StageDone /\ HandlerFrame
    /\ UNCHANGED <<h_event_time, image_file, cfn>>

CaptureRaises ==
    /\ pc = "handler" /\ hpc = "capture"
    /\ calls' = Append(calls, Call("capture_file", image_file, "", FALSE))
    /\ RaiseInRun("capture")
    /\ HandlerFrame
    /\ UNCHANGED <<envvars, h_event_time, image_file, cfn>>

\* lines 404-412: the image file is overridden by a simulated cat image
SimImage ==
    /\ pc = "handler" /\ hpc = "sim"
    /\ mode_sim_cam_image
    /\ \E image_list \in GlobResults : \E i \in 1..Len(image_list) :
          LET r == get_test_image(image_list, i, files)
          IN  /\ r.name # None
              /\ image_file' = r.name[1]
              /\ files' = r.cwd
              /\ calls' = Append(calls, Call("get_test_image", r.name[1],
                                             IF r.copied THEN "copied" ELSE "", TRUE))
    /\ hpc' = "classify"
    /\ StageDone /\ HandlerFrame
    /\ UNCHANGED <<now, h_event_time, cfn>>

\* faulty variant of lines 413-414: the missing image is silently skipped and
\* the run goes on with the generated image file
SimImageMissingSkipped ==
    /\ pc = "handler" /\ hpc = "sim"
    /\ mode_sim_cam_image
    /\ calls' = Append(calls, Call("get_test_image", "", "", TRUE))
    /\ hpc' = "classify"
    /\ StageDone /\ HandlerFrame
    /\ UNCHANGED <<envvars, h_event_time, image_file, cfn>>

\* lines 413-414: no image file found for the pattern
SimImageMissing ==
    /\ pc = "handler" /\ hpc = "sim"
    /\ mode_sim_cam_image
    /\ \E image_list \in GlobResults :
          LET r == get_test_image(image_list, 1, files)
          IN  /\ r.name = None
              /\ files' = r.cwd
              /\ calls' = Append(calls, Call("get_test_image", "",
                                             IF r.copied THEN "copied" ELSE "", TRUE))
    /\ RaiseInRun("sim")
    /\ HandlerFrame
    /\ UNCHANGED <<now, h_event_time, image_file, cfn>>

\* lines 417-427: classify the image
Classify ==
    /\ pc = "handler" /\ hpc = "classify"
    /\ CLASSIFY_ON
    /\ \E l \in Labels, p \in Probabilities, m \in ModelNames : cfn' = <<l, p, m>>
    /\ calls' = Append(calls, Call("predict_catmon_image", image_file, "", TRUE))
    /\ hpc' = "gdrive"
    /\ StageDone /\ HandlerFrame
    /\ UNCHANGED <<envvars, h_event_time, image_file>>

ClassifyRaises ==
    /\ pc = "handler" /\ hpc = "classify"
    /\ CLASSIFY_ON
    /\ calls' = Append(calls, Call("predict_catmon_image", image_file, "", FALSE))
    /\ RaiseInRun("classify")
    /\ HandlerFrame
    /\ UNCHANGED <<envvars, h_event_time, image_file, cfn>>

\* lines 428-429: classification is off
ClassifyOff ==
    /\ pc = "handler" /\ hpc = "classify"
    /\ ~CLASSIFY_ON
    /\ cfn' = NoCfn
    /\ hpc' = "gdrive"
    /\ StageDone /\ HandlerFrame
    /\ UNCHANGED <<envvars, h_event_time, image_file, calls>>

\* faulty variant of lines 434-436: an expired access token is not refreshed
WithRefreshNever(expired, refresh_ok) ==
    Append(calls, Call("access_token_expired", "",
                       IF expired THEN "True" ELSE "False", TRUE))

\* lines 434-436: the calls so far, the read of gcredentials.access_token_expired
\* and the refresh of an expired access token
WithRefresh(expired, refresh_ok) ==
    LET read == Append(calls, Call("access_token_expired", "",
                                   IF expired THEN "True" ELSE "False", TRUE))
    IN  IF expired THEN Append(read, Call("refresh", "", "", refresh_ok)) ELSE read

\* lines 432-456: upload the image to gdrive
Upload ==
    /\ pc = "handler" /\ hpc = "gdrive"
    /\ GDRIVE_ON
    /\ \E expired \in BOOLEAN, refresh_ok \in BOOLEAN, upload_ok \in BOOLEAN :
          LET folder == TargetFolder(CLASSIFY_ON, cfn[1])
          IN  /\ expired => refresh_ok
              /\ ~folder.raised
              /\ upload_ok
              /\ calls' = Append(WithRefresh(expired, refresh_ok),
                                 Call("Upload", image_file, folder.value[2], TRUE))
    /\ hpc' = "tweet"
    /\ StageDone /\ HandlerFrame
    /\ UNCHANGED <<envvars, h_event_time, image_file, cfn>>

\* faulty variant of the upload: its failure is swallowed and the handler
\* goes on to the tweet
UploadRaisesContinue ==
    /\ pc = "handler" /\ hpc = "gdrive"
    /\ GDRIVE_ON
    /\ LET folder == TargetFolder(CLASSIFY_ON, cfn[1])
       IN  /\ ~folder.raised
           /\ calls' = Append(calls, Call("Upload", image_file, folder.value[2], FALSE))
    /\ hpc' = "tweet"
    /\ StageDone /\ HandlerFrame
    /\ UNCHANGED <<envvars, h_event_time, image_file, cfn>>

UploadRaises ==
    /\ pc = "handler" /\ hpc = "gdrive"
    /\ GDRIVE_ON
    /\ \E expired \in BOOLEAN, refresh_ok \in BOOLEAN :
          LET folder == TargetFolder(CLASSIFY_ON, cfn[1])
          IN  \/ /\ expired /\ ~refresh_ok
                 /\ calls' = WithRefresh(expired, refresh_ok)
                 /\ RaiseInRun("refresh")
              \/ /\ expired => refresh_ok
                 /\ folder.raised
                 /\ calls' = WithRefresh(expired, refresh_ok)
                 /\ RaiseInRun("route")
              \/ /\ expired => refresh_ok
                 /\ ~folder.raised
                 /\ calls' = Append(WithRefresh(expired, refresh_ok),
                                    Call("Upload", image_file, folder.value[2], FALSE))
                 /\ RaiseInRun("upload")
    /\ HandlerFrame
    /\ UNCHANGED <<envvars, h_event_time, image_file, cfn>>

\* faulty variant of the gdrive stage: the image is uploaded although
\* GDRIVE_ON is off
GdriveOffUploads ==
    /\ pc = "handler" /\ hpc = "gdrive"
    /\ ~GDRIVE_ON
    /\ calls' = Append(calls, Call("Upload", image_file,
                                   gdrive_folders_dict.gdrive_default_folder_id, TRUE))
    /\ hpc' = "tweet"
    /\ StageDone /\ HandlerFrame
    /\ UNCHANGED <<envvars, h_event_time, image_file, cfn>>

GdriveOff ==
    /\ pc = "handler" /\ hpc = "gdrive"
    /\ ~GDRIVE_ON
    /\ hpc' = "tweet"
    /\ StageDone /\ HandlerFrame
    /\ UNCHANGED <<envvars, h_event_time, image_file, cfn, calls>>

\* lines 459-486: tweet the image with text
Tweet ==
    /\ pc = "handler" /\ hpc = "tweet"
    /\ TWEET_ON
    /\ LET text == TweetText(CLASSIFY_ON, cfn, image_file, h_event_time)
       IN  /\ ~text.raised
           /\ calls' = calls \o << Call("media_upload", image_file, "", TRUE),
                                  Call("create_tweet", text.value, image_file, TRUE) >>
    /\ hpc' = "complete"
    /\ StageDone /\ HandlerFrame
    /\ UNCHANGED <<envvars, h_event_time, image_file, cfn>>

TweetRaises ==
    /\ pc = "handler" /\ hpc = "tweet"
    /\ TWEET_ON
    /\ LET text == TweetText(CLASSIFY_ON, cfn, image_file, h_event_time)
       IN  \/ /\ text.raised
              /\ calls' = calls
              /\ RaiseInRun("text")
           \/ /\ ~text.raised
              /\ calls' = Append(calls, Call("media_upload", image_file, "", FALSE))
              /\ RaiseInRun("media")
           \/ /\ ~text.raised
              /\ calls' = calls \o << Call("media_upload", image_file, "", TRUE),
                                     Call("create_tweet", text.value, image_file, FALSE) >>
              /\ RaiseInRun("tweet")
    /\ HandlerFrame
    /\ UNCHANGED <<envvars, h_event_time, image_file, cfn>>

TweetOff ==
    /\ pc = "handler" /\ hpc = "tweet"
    /\ ~TWEET_ON
    /\ hpc' = "complete"
    /\ StageDone /\ HandlerFrame
    /\ UNCHANGED <<envvars, h_event_time, image_file, cfn, calls>>

\* ------------------------------------------------------ KeyboardInterrupt
\* CTRL+C while the loop blocks in wait_for_edge: not an Exception, so it
\* passes the except of line 359; lines 193-202
InterruptWait ==
    /\ pc = "wait"
    /\ Finally("KeyboardInterrupt")
    /\ UNCHANGED <<cfgvars, envvars, prev_event_time, event_time, hvars, obsvars>>

\* faulty variant of the keyboard interrupt in the handler: the interrupt is
\* noted and the run goes on with its stages
InterruptRunIgnored ==
    /\ pc = "handler" /\ hpc \in {"capture", "sim", "classify", "gdrive", "tweet"}
    /\ run_error = "none"
    /\ run_error' = "interrupt"
    /\ HandlerFrame
    /\ UNCHANGED <<envvars, loopvars, hvars, calls, runs_ended>>

\* CTRL+C while a stage of the handler sleeps or waits for a collaborator
InterruptRun ==
    /\ pc = "handler" /\ hpc \in {"capture", "sim", "classify", "gdrive", "tweet"}
    /\ Finally("KeyboardInterrupt")
    /\ hpc' = "raised"
    /\ run_error' = "interrupt"
    /\ runs_ended' = runs_ended + 1
    /\ HandlerFrame
    /\ UNCHANGED <<envvars, h_event_time, image_file, cfn, calls>>

\* wait_for_edge (line 329) or GPIO.input (line 339) raises: the except of
\* line 359 logs and re-raises it, lines 196-202
SensorReadError ==
    /\ pc \in {"wait", "check"}
    /\ Finally("Exception")
    /\ UNCHANGED <<cfgvars, envvars, prev_event_time, event_time, hvars, obsvars>>

Next ==
    \/ SingleShot \/ EdgeDetected \/ FalseAlarm \/ FirstEvent \/ IgnoreEvent
    \/ AdmitEvent \/ HandlerReturn
    \/ Capture \/ CaptureRaises \/ SimImage \/ SimImageMissing
    \/ Classify \/ ClassifyRaises \/ ClassifyOff
    \/ Upload \/ UploadRaises \/ GdriveOff
    \/ Tweet \/ TweetRaises \/ TweetOff
    \/ InterruptWait \/ InterruptRun \/ SensorReadError

Spec == Init /\ [][Next]_vars

\* -------------------------------------------------- the routing functions
\* get_gdrive_folder_for_cfn and get_tweet_text_for_cfn called on their own,
\* on arguments drawn from the sets below; the arguments are held in the
\* variables of the handler's locals of the same names, and calls holds the
\* call with what it returned (ok is FALSE when it raised ValueError),
\* followed by the second call of get_tweet_text_for_cfn when one was made
RoutingLabels == {"boo", "simba", "unknown", "tiger", "Boo", "", NoneStr}
RoutingProbabilities == {0, 5, 420, 999, 1000}     \* in thousandths
RoutingModelNames == {"m1", "m2"}
RoutingDateTimes == [hour : 0..23, day : {1, 25}, month : {6, 12}]
RoutingImageFiles == {"2023-10-01_000000.jpg", "test_unseen_boo.jpg"}

RoutingInit ==
    /\ mode_no_gpio = FALSE
    /\ mode_sim_cam_image = FALSE
    /\ is_testing = DerivedIsTesting(mode_no_gpio, mode_sim_cam_image)
    /\ GDRIVE_ON = TRUE
    /\ TWEET_ON = TRUE
    /\ CLASSIFY_ON = TRUE
    /\ now = 0
    /\ files = {}
    /\ pc = "call"
    /\ exc = "none"
    /\ prev_event_time = None
    /\ event_time = None
    /\ teardowns = 0
    /\ hpc = "idle"
    /\ h_event_time \in RoutingDateTimes
    /\ image_file \in RoutingImageFiles
    /\ cfn \in RoutingLabels \X RoutingProbabilities \X RoutingModelNames
    /\ calls = <<>>
    /\ last = None
    /\ n_transitions = 0
    /\ n_admitted = 0
    /\ matched = 0
    /\ runs_started = 0
    /\ runs_ended = 0
    /\ run_error = "none"

RoutingFrame ==
    UNCHANGED <<cfgvars, envvars, loopvars, hvars, gatevars,
                runs_started, runs_ended, run_error>>

\* self.get_gdrive_folder_for_cfn(cfn_label)
CallFolderForCfn ==
    /\ pc = "call"
    /\ LET r == get_gdrive_folder_for_cfn(cfn[1])
       IN  calls' = << Call("get_gdrive_folder_for_cfn",
                            IF r.raised THEN "" ELSE r.value[1],
                            IF r.raised THEN "" ELSE r.value[2],
                            ~r.raised) >>
    /\ RoutingFrame

\* self.get_tweet_text_for_cfn(cfn_label, cfn_model_name, cfn_probability,
\*                             image_file, event_time)
CallTweetTextForCfn ==
    /\ pc = "call"
    /\ LET r == get_tweet_text_for_cfn(cfn[1], cfn[3], cfn[2], image_file, h_event_time)
       IN  calls' = << Call("get_tweet_text_for_cfn",
                            IF r.raised THEN "" ELSE r.value, "", ~r.raised) >>
    /\ RoutingFrame

\* faulty variant of the second call: the function has a memory, the text
\* carries the number of the call
CallTweetTextAgainCounted ==
    /\ pc = "call"
    /\ Len(calls) = 1 /\ calls[1].op = "get_tweet_text_for_cfn"
    /\ \E p \in RoutingProbabilities, m \in RoutingModelNames,
          image \in RoutingImageFiles :
          LET r == get_tweet_text_for_cfn(cfn[1], m, p, image, h_event_time)
          IN  /\ cfn' = <<cfn[1], p, m>>
              /\ image_file' = image
              /\ calls' = Append(calls,
                                 Call("get_tweet_text_for_cfn",
                                      IF r.raised THEN "" ELSE r.value \o " #2",
                                      "", ~r.raised))
    /\ UNCHANGED <<cfgvars, envvars, loopvars, hpc, h_event_time, gatevars,
                   runs_started, runs_ended, run_error>>

\* a second call of get_tweet_text_for_cfn with the same label and the same
\* event time; the model name, the probability and the image file are drawn
\* again (the same values included)
CallTweetTextAgain ==
    /\ pc = "call"
    /\ Len(calls) = 1 /\ calls[1].op = "get_tweet_text_for_cfn"
    /\ \E p \in RoutingProbabilities, m \in RoutingModelNames,
          image \in RoutingImageFiles :
          LET r == get_tweet_text_for_cfn(cfn[1], m, p, image, h_event_time)
          IN  /\ cfn' = <<cfn[1], p, m>>
              /\ image_file' = image
              /\ calls' = Append(calls,
                                 Call("get_tweet_text_for_cfn",
                                      IF r.raised THEN "" ELSE r.value,
                                      "", ~r.raised))
    /\ UNCHANGED <<cfgvars, envvars, loopvars, hpc, h_event_time, gatevars,
                   runs_started, runs_ended, run_error>>

RoutingNext == CallFolderForCfn \/ CallTweetTextForCfn \/ CallTweetTextAgain

RoutingSpec == RoutingInit /\ [][RoutingNext]_vars

\* ===================================================================== claims
Last == last[1]
Active == runs_started - runs_ended
CallOps == { calls[i].op : i \in 1..Len(calls) }
OkCalls(op) == { i \in 1..Len(calls) : calls[i].op = op /\ calls[i].ok }
StageErrors == {"capture", "sim", "classify", "refresh", "route", "upload",
                "text", "media", "tweet"}
\* a step in which the loop decides on a transition
Decides == n_transitions' = n_transitions + 1

\* C1: in sensor mode, a transition whose level is read low after the edge
\* never invokes the event handler: the step that decides it starts no run and
\* puts the loop back in wait_for_edge.
C1_LowNeverHandled ==
    [][ (Decides /\ last'[1].level = LOW)
        => /\ runs_started' = runs_started
           /\ ~last'[1].admitted
           /\ hpc' = "idle"
           /\ pc' = "wait" ]_vars

C1_Witness ==
    /\ last # None /\ Last.level = LOW
    /\ pc = "wait" /\ runs_started = 0 /\ n_transitions = 2

\* C2: a transition read high is admitted iff no transition was admitted
\* before it or its event time is at least EVENT_GAP after the event time of
\* the last admitted transition; transitions read high at 0, 3, 6 s are
\* admitted, dropped, admitted.
ScenarioOutcomes == <<TRUE, FALSE, TRUE>>

C2_AdmittedIffGap ==
    /\ (last # None /\ Last.level = HIGH)
          => (Last.admitted <=> (Last.ref = None \/ Last.t - Last.ref[1] >= EVENT_GAP))
    /\ (last # None /\ matched = n_transitions)
          => Last.admitted = ScenarioOutcomes[n_transitions]
    /\ ~mode_no_gpio => n_admitted = runs_started

C2_Witness ==
    /\ matched = Len(ScenarioTimes) /\ n_transitions = Len(ScenarioTimes)
    /\ Last.t = 6 /\ Last.admitted /\ Last.ref = <<0>>
    /\ Last.prev = <<[t |-> 3, level |-> HIGH, admitted |-> FALSE]>>
    /\ pc = "handler"

\* C3 as stated: for consecutive transitions t1 < t2 (the first admitted or
\* not), t2 - t1 < EVENT_GAP means the second is never admitted, and
\* t2 - t1 >= EVENT_GAP means it is admitted if it is read high. Stated here
\* for a first transition that was itself read high, which is enough to
\* refute it.
C3_Original ==
    (/\ last # None /\ Last.prev # None /\ Last.prev[1].t < Last.t
     /\ Last.prev[1].level = HIGH)
       => /\ (Last.t - Last.prev[1].t < EVENT_GAP) => ~Last.admitted
          /\ (Last.t - Last.prev[1].t >= EVENT_GAP /\ Last.level = HIGH)
                => Last.admitted

\* C3 amended: for consecutive transitions t1 < t2, the second is never
\* admitted when t2 is less than EVENT_GAP after the last ADMITTED transition,
\* and it is admitted when t2 - t1 >= EVENT_GAP and it is read high.
C3_ConsecutiveTransitions ==
    (last # None /\ Last.prev # None /\ Last.prev[1].t < Last.t)
       => /\ (Last.ref # None /\ Last.t - Last.ref[1] < EVENT_GAP) => ~Last.admitted
          /\ (Last.t - Last.prev[1].t >= EVENT_GAP /\ Last.level = HIGH)
                => Last.admitted

\* the second transition follows a dropped one by less than the gap and is
\* admitted all the same
C3_Witness ==
    /\ last # None /\ Last.prev # None
    /\ ~Last.prev[1].admitted /\ Last.prev[1].level = HIGH
    /\ Last.prev[1].t < Last.t /\ Last.t - Last.prev[1].t < EVENT_GAP
    /\ Last.admitted /\ Last.ref # None

\* C4: prev_event_time changes only when the handler returns for an admitted
\* transition, and then to the event time taken when the edge was detected; a
\* step that drops a transition leaves it as it is.
C4_PrevEventTime ==
    [][ /\ (prev_event_time' # prev_event_time)
           => /\ hpc = "complete" /\ hpc' = "idle"
              /\ Last.admitted
              /\ prev_event_time' = <<Last.t>>
        /\ (Decides /\ ~last'[1].admitted) => prev_event_time' = prev_event_time
      ]_vars

\* a transition dropped within the gap after a run that took a second: the
\* previous event time is still the event time of the admitted transition
C4_Witness ==
    /\ last # None /\ ~Last.admitted /\ Last.level = HIGH
    /\ prev_event_time = <<0>> /\ Last.ref = <<0>>
    /\ Last.prev = <<[t |-> 0, level |-> HIGH, admitted |-> TRUE]>>
    /\ Last.t = 1 /\ pc = "wait"

\* C5: with mode_no_gpio the loop never waits for an edge and decides on no
\* transition; the handler is invoked once, and when that run has ended, in
\* success or in failure, the loop has ended too.
C5_SingleShot ==
    mode_no_gpio
       => /\ pc \in {"single", "handler", "exited"}
          /\ n_transitions = 0 /\ event_time = None /\ prev_event_time = None
          /\ runs_started = (IF pc = "single" THEN 0 ELSE 1)
          /\ runs_ended = (IF pc = "exited" THEN 1 ELSE 0)

C5_Witness ==
    /\ mode_no_gpio /\ pc = "exited" /\ exc = "none"
    /\ runs_started = 1 /\ runs_ended = 1 /\ run_error = "none"

\* C6: at most one run is active, a run is active exactly while the loop is
\* inside the handler call, the loop waits for an edge only when no run is
\* active, and no transition is decided on while a run is active.
C6_OneRunAtATime ==
    /\ [](/\ Active \in {0, 1}
          /\ (Active = 1) <=> (pc = "handler")
          /\ (pc = "handler") <=> (hpc \notin {"idle", "raised"})
          /\ (pc \in {"wait", "check"}) => (Active = 0 /\ hpc = "idle"))
    /\ [][ Active = 1 => UNCHANGED <<gatevars, event_time>> ]_vars

C6_Witness ==
    /\ pc = "wait" /\ runs_started = 2 /\ runs_ended = 2

\* C7 as stated: in sensor mode a stage error fails only the current run, and
\* the loop goes on to wait for the next transition.
C7_Original ==
    (~mode_no_gpio /\ run_error \in StageErrors) => pc \in {"wait", "check", "handler"}

\* C7 amended: in sensor mode a stage error ends the run and is re-raised out
\* of the event loop: the loop has ended, the teardown has run, the exception
\* is an Exception, and no transition is decided on and no run started
\* afterwards.
C7_StageErrorEndsLoop ==
    /\ []((~mode_no_gpio /\ run_error \in StageErrors)
             => (pc = "exited" /\ exc = "Exception" /\ teardowns = 1 /\ Active = 0))
    /\ [][ (run_error \in StageErrors) => UNCHANGED <<gatevars, runs_started, pc>> ]_vars

C7_Witness ==
    /\ ~mode_no_gpio /\ run_error = "classify" /\ pc = "exited"
    /\ n_transitions < MaxTransitions

\* C8: within a run a failing call is the last call of the run and nothing is
\* undone: after a failure of the classification, the routing or the upload
\* no tweet is sent; after a failure of the tweet the upload of the run is
\* still there; no file of the working directory is ever deleted.
C8_FailureAbortsRest ==
    /\ [](/\ \A i \in 1..Len(calls) : ~calls[i].ok => i = Len(calls)
          /\ (run_error \in StageErrors) => (hpc = "raised" /\ pc = "exited")
          /\ (run_error \in {"classify", "refresh", "route", "upload"})
                => (CallOps \cap {"media_upload", "create_tweet"} = {})
          /\ (run_error \in {"text", "media"}) => OkCalls("create_tweet") = {}
          /\ (run_error \in {"text", "media", "tweet"} /\ GDRIVE_ON)
                => OkCalls("Upload") # {}
          /\ (hpc \in {"sim", "classify", "gdrive", "tweet", "complete"})
                => (calls # <<>> /\ calls[1].ok)
          /\ (calls # <<>> /\ calls[1].ok) => calls[1].a \in files)
    /\ [][ /\ files \subseteq files'
           /\ (hpc' \notin {"idle", "capture"})
                 => (Len(calls') >= Len(calls) /\ SubSeq(calls', 1, Len(calls)) = calls)
           /\ (run_error \in StageErrors) => UNCHANGED <<calls, files, hvars>> ]_vars

\* the tweet failed after the upload, and the upload is still there
C8_Witness ==
    /\ run_error = "tweet" /\ hpc = "raised"
    /\ OkCalls("Upload") # {} /\ calls[1].a \in files
    /\ calls[Len(calls)].op = "create_tweet" /\ ~calls[Len(calls)].ok

\* C9: the calls of a run come in the order capture, (substitute image,)
\* classify, (refresh,) upload, tweet: a call is made only after the capture
\* has completed, the upload only after the classifier (when on) has
\* returned, the tweet only after the upload (when on) has completed; no call
\* is made twice in a run.
Before(i, op) == \E j \in 1..(i - 1) : calls[j].op = op /\ calls[j].ok

C9_StageOrder ==
    \A i \in 1..Len(calls) :
       LET op == calls[i].op
       IN  /\ op = "capture_file" => i = 1
           /\ op # "capture_file" => Before(i, "capture_file")
           /\ op = "get_test_image"
                 => CallOps \cap {"predict_catmon_image", "access_token_expired",
                                  "refresh", "Upload",
                                  "media_upload", "create_tweet"}
                    \subseteq { calls[j].op : j \in (i + 1)..Len(calls) }
           /\ (op \in {"access_token_expired", "refresh", "Upload", "media_upload",
                       "create_tweet"} /\ CLASSIFY_ON)
                 => (Before(i, "predict_catmon_image") /\ cfn # NoCfn)
           /\ op = "Upload" => ~Before(i, "Upload")
           /\ op = "refresh" => ~Before(i, "Upload")
           /\ (op \in {"media_upload", "create_tweet"} /\ GDRIVE_ON)
                 => Before(i, "Upload")
           /\ op = "create_tweet" => Before(i, "media_upload")
           /\ \A j \in 1..Len(calls) : calls[j].op = op => j = i

C9_Witness ==
    /\ hpc = "complete" /\ mode_sim_cam_image
    /\ [i \in 1..Len(calls) |-> calls[i].op]
         = <<"capture_file", "get_test_image", "predict_catmon_image",
             "access_token_expired", "refresh", "Upload", "media_upload",
             "create_tweet">>

\* C10 as stated: with mode_sim_cam_image the camera capture is not invoked.
C10_Original ==
    mode_sim_cam_image => "capture_file" \notin CallOps

\* C10 amended: with mode_sim_cam_image the camera capture is still invoked,
\* once, for the generated file name, and the image file is then overridden:
\* every later call of the run is given the image of get_test_image, never
\* the generated file.
SubstituteNames ==
    UNION { { TestImageName(l[i]) : i \in 1..Len(l) } : l \in GlobResults }

C10_SimImageOverrides ==
    (mode_sim_cam_image /\ hpc \in {"classify", "gdrive", "tweet", "complete"})
       => /\ Len(calls) >= 2
          /\ calls[1].op = "capture_file" /\ calls[1].ok
          /\ calls[2].op = "get_test_image"
          /\ image_file = calls[2].a
          /\ image_file \in SubstituteNames
          /\ image_file # calls[1].a
          /\ \A i \in 3..Len(calls) :
                /\ calls[i].op # "capture_file"
                /\ calls[i].op \in {"predict_catmon_image", "Upload", "media_upload"}
                      => calls[i].a = image_file
                /\ calls[i].op = "create_tweet" => calls[i].b = image_file

C10_Witness ==
    /\ mode_sim_cam_image /\ hpc = "complete"
    /\ CLASSIFY_ON /\ GDRIVE_ON /\ TWEET_ON
    /\ image_file = "test_unseen_simba.jpg"
    /\ Len(calls) >= 5

\* C11: with mode_sim_cam_image, when the pattern matches no file,
\* get_test_image returns None without raising and copies nothing (the
\* working directory stays as it is), and the run fails with a raised error:
\* the call is the last call of the run, and no classifier, credential,
\* upload or tweet call is made for the event.
LaterStageOps == {"predict_catmon_image", "access_token_expired", "refresh",
                  "Upload", "media_upload", "create_tweet"}
NoImageReturned ==
    \E i \in 1..Len(calls) : calls[i].op = "get_test_image" /\ calls[i].a = ""

C11_NoImageFailsRun ==
    /\ [](/\ NoImageReturned <=> (run_error = "sim")
          /\ NoImageReturned
                => /\ mode_sim_cam_image
                   /\ calls[Len(calls)]
                        = Call("get_test_image", "", "", TRUE)
                   /\ CallOps \cap LaterStageOps = {}
                   /\ hpc = "raised" /\ pc = "exited" /\ exc = "Exception"
                   /\ Active = 0)
    /\ [][ (run_error' = "sim" /\ run_error # "sim")
              => (hpc = "sim" /\ files' = files /\ image_file' = image_file) ]_vars

C11_Witness ==
    /\ run_error = "sim" /\ NoImageReturned
    /\ Len(calls) = 2 /\ calls[1].op = "capture_file"
    /\ CLASSIFY_ON /\ GDRIVE_ON /\ TWEET_ON

\* C12: with CLASSIFY_ON off and GDRIVE_ON and TWEET_ON on, a run never calls
\* the classifier, label, probability and model name stay None, the image is
\* uploaded to the default folder, and the text of the tweet is exactly the
\* boilerplate text, a space and the image file name, with no greeting and no
\* probability.
CallsOf(op) == { i \in 1..Len(calls) : calls[i].op = op }

C12_ClassifyOff ==
    (~CLASSIFY_ON /\ GDRIVE_ON /\ TWEET_ON)
       => /\ "predict_catmon_image" \notin CallOps
          /\ cfn = <<NoneStr, NoneNum, NoneStr>>
          /\ \A i \in CallsOf("Upload") :
                calls[i].a = image_file /\ calls[i].b = "id_default"
          /\ \A i \in CallsOf("create_tweet") :
                /\ calls[i].a = "Auto-tweet from catmon2: " \o image_file
                /\ calls[i].b = image_file
          /\ run_error \notin {"classify", "route", "text"}
          /\ hpc = "complete"
                => (OkCalls("Upload") # {} /\ OkCalls("create_tweet") # {})

C12_Witness ==
    /\ ~CLASSIFY_ON /\ GDRIVE_ON /\ TWEET_ON /\ ~is_testing
    /\ hpc = "complete" /\ Len(calls) = 5
    /\ calls[3] = Call("Upload", "2023-10-01_000003.jpg", "id_default", TRUE)
    /\ calls[5] = Call("create_tweet",
                       "Auto-tweet from catmon2: 2023-10-01_000003.jpg",
                       "2023-10-01_000003.jpg", TRUE)

\* C13: for every non-empty label outside boo, simba and unknown, both
\* get_gdrive_folder_for_cfn and get_tweet_text_for_cfn raise ValueError:
\* neither returns the default folder, any other folder or any text.
KnownLabels == {"boo", "simba", "unknown"}
Returned == calls[Len(calls)]

C13_InvalidLabelRaises ==
    (/\ calls # <<>>
     /\ Returned.op \in {"get_gdrive_folder_for_cfn", "get_tweet_text_for_cfn"}
     /\ cfn[1] \notin KnownLabels
     /\ cfn[1] \notin {"", NoneStr})
       => /\ ~Returned.ok
          /\ Returned.a = "" /\ Returned.b = ""
          /\ Returned.a # "catmon" /\ Returned.b # "id_default"

C13_Witness ==
    /\ calls # <<>> /\ Returned.op = "get_gdrive_folder_for_cfn"
    /\ cfn[1] = "Boo" /\ ~Returned.ok

\* C14 as stated: for every combination of GDRIVE_ON and TWEET_ON, both off
\* included, a run with CLASSIFY_ON in which the classifier returned a
\* non-empty label outside boo, simba and unknown never completes.
InvalidLabelClassified ==
    /\ CLASSIFY_ON
    /\ OkCalls("predict_catmon_image") # {}
    /\ cfn[1] \notin KnownLabels /\ cfn[1] \notin {"", NoneStr}

C14_Original ==
    InvalidLabelClassified => hpc # "complete"

\* C14 amended: when GDRIVE_ON or TWEET_ON is on, such a run never completes:
\* the first enabled routing call raises ValueError before any upload or
\* tweet call (unless a failed credential refresh or an interrupt ends the
\* run before); with GDRIVE_ON and TWEET_ON both off nothing looks at the
\* label and no such error is raised.
C14_InvalidLabelFailsRun ==
    InvalidLabelClassified
       => /\ (GDRIVE_ON \/ TWEET_ON) => hpc \in {"gdrive", "tweet", "raised"}
          /\ GDRIVE_ON => hpc \in {"gdrive", "raised"}
          /\ CallOps \cap {"Upload", "media_upload", "create_tweet"} = {}
          /\ hpc = "raised"
                => /\ run_error \in {"refresh", "route", "text", "interrupt"}
                   /\ run_error = "route" => GDRIVE_ON
                   /\ run_error = "text" => (~GDRIVE_ON /\ TWEET_ON)
                   /\ run_error = "refresh" => GDRIVE_ON
          /\ (~GDRIVE_ON /\ ~TWEET_ON) => run_error \in {"none", "interrupt"}

C14_Witness ==
    /\ InvalidLabelClassified /\ cfn[1] = "tiger"
    /\ ~GDRIVE_ON /\ TWEET_ON
    /\ run_error = "text" /\ pc = "exited" /\ exc = "Exception"

\* C15: for each label L of boo, simba and unknown, get_gdrive_folder_for_cfn
\* returns the folder name and the folder id of the entries gdrive_L_folder
\* and gdrive_L_folder_id of the folders dictionary, never the default
\* folder, the auto discard folder or the folder of another label.
FolderOf(l) == gdrive_folders_dict["gdrive_" \o l \o "_folder"]
FolderIdOf(l) == gdrive_folders_dict["gdrive_" \o l \o "_folder_id"]

C15_KnownLabelOwnFolder ==
    (/\ calls # <<>>
     /\ Returned.op = "get_gdrive_folder_for_cfn"
     /\ cfn[1] \in KnownLabels)
       => /\ Returned.ok
          /\ Returned.a = FolderOf(cfn[1])
          /\ Returned.b = FolderIdOf(cfn[1])
          /\ \A l \in ({"default", "auto_discard"} \cup KnownLabels) \ {cfn[1]} :
                Returned.a # FolderOf(l) /\ Returned.b # FolderIdOf(l)

C15_Witness ==
    /\ calls # <<>>
    /\ Returned = Call("get_gdrive_folder_for_cfn", "simba", "id_simba", TRUE)
    /\ cfn[1] = "simba"

\* C16: the three stages are gated independently. For each of the eight
\* combinations of CLASSIFY_ON, GDRIVE_ON and TWEET_ON, a run that completes
\* without an error has captured the image, has called the classifier iff
\* CLASSIFY_ON, has uploaded iff GDRIVE_ON and has tweeted iff TWEET_ON; the
\* collaborators of a stage that is off are never called, in any run.
C16_IndependentGates ==
    /\ ~CLASSIFY_ON => "predict_catmon_image" \notin CallOps
    /\ ~GDRIVE_ON => CallOps \cap {"access_token_expired", "refresh", "Upload"} = {}
    /\ ~TWEET_ON => CallOps \cap {"media_upload", "create_tweet"} = {}
    /\ hpc = "complete"
          => /\ run_error = "none"
             /\ OkCalls("capture_file") = {1}
             /\ CLASSIFY_ON <=> (OkCalls("predict_catmon_image") # {})
             /\ GDRIVE_ON <=> (OkCalls("Upload") # {})
             /\ TWEET_ON <=> (OkCalls("media_upload") # {})
             /\ TWEET_ON <=> (OkCalls("create_tweet") # {})
             /\ \A i \in 1..Len(calls) : calls[i].ok

C16_Witness ==
    /\ hpc = "complete" /\ CLASSIFY_ON /\ ~GDRIVE_ON /\ TWEET_ON
    /\ ~mode_sim_cam_image
    /\ [i \in 1..Len(calls) |-> calls[i].op]
         = <<"capture_file", "predict_catmon_image", "media_upload", "create_tweet">>

\* C17: when the gdrive stage runs and gcredentials.access_token_expired is
\* read True, gcredentials.refresh is called next, before the upload call of
\* the run; no upload is attempted after an expired token that was not
\* refreshed with success; refresh is not called when the token is read not
\* expired, nor when GDRIVE_ON is off.
ExpiredRead(i) == calls[i].op = "access_token_expired" /\ calls[i].b = "True"

C17_RefreshBeforeUpload ==
    /\ \A i \in CallsOf("Upload") :
          \E j \in 1..(i - 1) :
             /\ calls[j].op = "access_token_expired"
             /\ ExpiredRead(j)
                   => (j + 1 < i /\ calls[j + 1].op = "refresh" /\ calls[j + 1].ok)
    /\ \A i \in CallsOf("access_token_expired") :
          ExpiredRead(i) <=> (i < Len(calls) /\ calls[i + 1].op = "refresh")
    /\ \A i \in CallsOf("refresh") :
          i > 1 /\ ExpiredRead(i - 1) /\ GDRIVE_ON /\ CallsOf("Upload") \cap 1..i = {}
    /\ ~GDRIVE_ON => CallOps \cap {"access_token_expired", "refresh"} = {}
    /\ (GDRIVE_ON /\ hpc \in {"tweet", "complete"})
          => CallsOf("access_token_expired") # {}

\* an expired token, refreshed, and then the upload
C17_Witness ==
    /\ hpc = "tweet" /\ GDRIVE_ON /\ ~CLASSIFY_ON /\ Len(calls) = 4
    /\ ExpiredRead(2)
    /\ calls[3] = Call("refresh", "", "", TRUE)
    /\ calls[4].op = "Upload" /\ calls[4].ok

\* C18: every way of leaving the event loop, an exception from a stage, a
\* sensor read error, a keyboard interrupt or the break after the single
\* call of the handler, runs GPIO.cleanup() and camera.stop() in the same
\* step, exactly once; the exception, if there is one, is re-raised, and
\* nothing happens afterwards.
C18_TeardownOnExit ==
    /\ [](/\ teardowns \in {0, 1}
          /\ (pc = "exited") <=> (teardowns = 1)
          /\ exc \in {"none", "Exception", "KeyboardInterrupt"}
          /\ (pc # "exited") => exc = "none"
          /\ (pc = "exited")
                => /\ (run_error \in StageErrors) => exc = "Exception"
                   /\ (run_error = "interrupt") => exc = "KeyboardInterrupt"
                   /\ (exc = "none")
                         <=> (mode_no_gpio /\ run_error = "none" /\ runs_ended = 1)
                   /\ Active = 0)
    /\ [][ /\ pc # "exited"
           /\ (pc' = "exited") <=> (teardowns' = teardowns + 1)
           /\ (pc' # "exited") => UNCHANGED <<teardowns, exc>> ]_vars

\* a sensor read error after one complete run
C18_Witness ==
    /\ pc = "exited" /\ teardowns = 1 /\ exc = "Exception"
    /\ ~mode_no_gpio /\ run_error = "none"
    /\ runs_started = 1 /\ runs_ended = 1 /\ hpc = "idle"

\* C19 as stated: a keyboard interrupt that arrives while a run is in flight
\* lets the run finish its remaining enabled stages before the teardown; no
\* run is ended by the interrupt before its last enabled stage has run.
StagesLeft ==
    \/ CLASSIFY_ON /\ "predict_catmon_image" \notin CallOps
    \/ GDRIVE_ON /\ "Upload" \notin CallOps
    \/ TWEET_ON /\ "create_tweet" \notin CallOps

C19_Original ==
    (exc = "KeyboardInterrupt" /\ run_error = "interrupt") => ~StagesLeft

\* C19 amended: a keyboard interrupt that arrives while a run is in flight
\* ends the run at the stage it is in: no call is made for the stage or for
\* any stage after it, the calls made and the files written stay as they
\* are, the teardown runs once and the interrupt is re-raised.
C19_InterruptAbortsRun ==
    /\ []((run_error = "interrupt")
             => /\ pc = "exited" /\ hpc = "raised"
                /\ exc = "KeyboardInterrupt" /\ teardowns = 1
                /\ Active = 0
                /\ \A i \in 1..Len(calls) : calls[i].ok)
    /\ [][ (run_error' = "interrupt" /\ run_error # "interrupt")
              => /\ pc = "handler"
                 /\ hpc \in {"capture", "sim", "classify", "gdrive", "tweet"}
                 /\ UNCHANGED <<calls, files, image_file, cfn, prev_event_time>> ]_vars

\* interrupted after the upload, before the tweet
C19_Witness ==
    /\ run_error = "interrupt" /\ pc = "exited"
    /\ CLASSIFY_ON /\ GDRIVE_ON /\ TWEET_ON
    /\ OkCalls("Upload") # {}
    /\ CallOps \cap {"media_upload", "create_tweet"} = {}

\* C20: for every hour 0..23 of the event time the text of
\* get_tweet_text_for_cfn starts with Good morning iff hour < 12, with Good
\* afternoon iff 12 <= hour < 18 and with Good evening iff hour >= 18, and
\* has the Christmas greeting iff day = 25 and month = 12; for a known label
\* the text has the greeting, the phrase of the label, the model name, the
\* probability as a percentage with one decimal, the boilerplate text and the
\* image file name (unknown, 0.42, m1, hour 14: Good afternoon, cat of
\* mystery, 42.0% and m1).
Contains(text, part) ==
    \E i \in 1..(Len(text) - Len(part) + 1) :
       SubSeq(text, i, i + Len(part) - 1) = part
StartsWith(text, part) ==
    Len(part) <= Len(text) /\ SubSeq(text, 1, Len(part)) = part

LabelPhrase ==
    [ boo |-> " Boo, aka Fluff Bag!", simba |-> " Simba, aka Mr Handsome!",
      unknown |-> " cat of mystery!" ]
\* the probabilities of RoutingProbabilities and Probabilities as Python
\* formats them with .1%
ExpectedPercent(p) ==
    CASE p = 0 -> "0.0%" [] p = 5 -> "0.5%" [] p = 420 -> "42.0%"
      [] p = 999 -> "99.9%" [] p = 1000 -> "100.0%"

C20_TweetText ==
    (calls # <<>> /\ Returned.op = "get_tweet_text_for_cfn" /\ cfn[1] \in KnownLabels)
       => LET text == Returned.a
              dt == h_event_time
          IN  /\ Returned.ok
              /\ StartsWith(text, "Good morning") <=> (dt.hour < 12)
              /\ StartsWith(text, "Good afternoon") <=> (12 <= dt.hour /\ dt.hour < 18)
              /\ StartsWith(text, "Good evening") <=> (dt.hour >= 18)
              /\ Contains(text, " and Happy Christmas") <=> (dt.day = 25 /\ dt.month = 12)
              /\ Contains(text, LabelPhrase[cfn[1]])
              /\ Contains(text, "(using " \o cfn[3] \o ")")
              /\ Contains(text, " " \o ExpectedPercent(cfn[2]) \o "\n")
              /\ Contains(text, "Auto-tweet from catmon2: " \o image_file)
              /\ (cfn = <<"unknown", 420, "m1">> /\ dt.hour = 14)
                    => /\ Contains(text, "Good afternoon")
                       /\ Contains(text, "cat of mystery")
                       /\ Contains(text, "42.0%")
                       /\ Contains(text, "m1")

\* scenario C on Christmas day
C20_Witness ==
    /\ calls # <<>> /\ Returned.op = "get_tweet_text_for_cfn" /\ Returned.ok
    /\ cfn = <<"unknown", 420, "m1">>
    /\ h_event_time = [hour |-> 14, day |-> 25, month |-> 12]
    /\ image_file = "2023-10-01_000000.jpg"
    /\ Returned.a = "Good afternoon and Happy Christmas cat of mystery!\n\nCatmonic (using m1) says the likelihood is 42.0%\n\nAuto-tweet from catmon2: 2023-10-01_000000.jpg"

\* C21: get_test_image with copy_to_cwd is idempotent on the same image: the
\* call returns test_file_prefix + base name; it copies iff no file of that
\* name is in the working directory, so the first call for an image makes one
\* copy and a second call for it makes none and raises nothing; the working
\* directory gains at most that one name and a file that exists is left alone.
C21_IdempotentCopy ==
    /\ [](\A i \in CallsOf("get_test_image") :
             calls[i].a # ""
                => /\ calls[i].ok
                   /\ calls[i].a \in SubstituteNames
                   /\ calls[i].a \in files)
    /\ [][ (hpc = "sim" /\ hpc' = "classify")
              => LET c == calls'[Len(calls')]
                 IN  /\ c.op = "get_test_image" /\ c.ok
                     /\ c.a = image_file'
                     /\ (c.b = "copied") <=> (c.a \notin files)
                     /\ (c.b = "") <=> (c.a \in files)
                     /\ files' = files \cup {c.a}
                     /\ (c.a \in files) => files' = files ]_vars

\* the second run picks the image of the first run: same name, no copy
C21_Witness ==
    /\ runs_started = 2 /\ hpc = "classify" /\ Len(calls) = 2
    /\ calls[2] = Call("get_test_image", "test_unseen_boo.jpg", "", TRUE)
    /\ image_file = "test_unseen_boo.jpg"
    /\ "test_unseen_simba.jpg" \notin files

\* C22: in every reachable state is_testing is mode_no_gpio or
\* mode_sim_cam_image, and no step of the loop, of a run or of get_test_image
\* changes mode_no_gpio, mode_sim_cam_image or is_testing.
C22_TestModesFixed ==
    /\ [](/\ is_testing \in BOOLEAN
          /\ is_testing <=> (mode_no_gpio \/ mode_sim_cam_image))
    /\ [][ UNCHANGED <<mode_no_gpio, mode_sim_cam_image, is_testing>> ]_vars

\* after two runs with simulated images in sensor mode
C22_Witness ==
    /\ ~mode_no_gpio /\ mode_sim_cam_image /\ is_testing
    /\ runs_ended = 2 /\ n_transitions = 3 /\ pc = "wait"
    /\ files # {}

\* C23 as stated: two calls of get_tweet_text_for_cfn with the same label and
\* the same event time return the same text, whatever else differs.
TwoTextCalls ==
    /\ Len(calls) = 2
    /\ calls[1].op = "get_tweet_text_for_cfn"
    /\ calls[2].op = "get_tweet_text_for_cfn"

C24_LoopGoesOnAfterRun ==
    /\ []((~mode_no_gpio /\ pc = "exited")
             => /\ exc \in {"Exception", "KeyboardInterrupt"}
                /\ (hpc = "raised") <=> (run_error # "none"))
    /\ [][ (~mode_no_gpio /\ hpc = "complete")
              => /\ run_error = "none"
                 /\ pc' = "wait" /\ hpc' = "idle"
                 /\ runs_ended' = runs_ended + 1
                 /\ UNCHANGED <<teardowns, exc, gatevars, runs_started>> ]_vars

\* back in wait_for_edge after the first run
C24_Witness ==
    /\ ~mode_no_gpio /\ pc = "wait" /\ hpc = "idle"
    /\ runs_started = 1 /\ runs_ended = 1 /\ run_error = "none"
    /\ n_transitions = 1 /\ prev_event_time = <<0>> /\ teardowns = 0

\* C25: after any sequence of transitions in sensor mode the number of runs
\* started is the number of transitions admitted: the step that admits a
\* transition starts its run, one run, in that same step, and no other step
\* starts a run, so a transition dropped as a false alarm or within the gap
\* never causes a run later.
C25_RunsAreAdmissions ==
    /\ [](~mode_no_gpio
             => /\ runs_started = n_admitted
                /\ n_admitted <= n_transitions
                /\ (pc = "handler") => (last # None /\ Last.admitted
                                        /\ event_time = <<Last.t>>))
    /\ [][ ~mode_no_gpio
              => /\ Decides
                    => /\ runs_started' = runs_started
                                            + (IF last'[1].admitted THEN 1 ELSE 0)
                       /\ last'[1].admitted <=> (pc' = "handler" /\ hpc' = "capture")
                       /\ ~last'[1].admitted => (pc' = "wait" /\ hpc' = "idle")
                 /\ (runs_started' # runs_started) => Decides ]_vars

\* an admitted transition, a false alarm and a drop within the gap: one run
C25_Witness ==
    /\ ~mode_no_gpio /\ pc = "wait"
    /\ n_transitions = 3 /\ n_admitted = 1 /\ runs_started = 1 /\ runs_ended = 1
    /\ Last.level = HIGH /\ ~Last.admitted
    /\ Last.prev # None /\ Last.prev[1].level = LOW

\* C26: with mode_sim_cam_image and a test image found, the classifier, the
\* upload, the media upload and the text of the tweet are given the name
\* get_test_image returned, never the name generated for the capture; without
\* mode_sim_cam_image they are given the captured file, whose name starts
\* with test_file_prefix iff is_testing.
EndsWith(text, part) ==
    Len(part) <= Len(text)
    /\ SubSeq(text, Len(text) - Len(part) + 1, Len(text)) = part
UsesImage(c, image) ==
    /\ c.op \in {"capture_file", "predict_catmon_image", "Upload", "media_upload"}
          => c.a = image
    /\ c.op = "create_tweet" => (c.b = image /\ EndsWith(c.a, " " \o image))

C26_ImageOfLaterStages ==
    (hpc \in {"classify", "gdrive", "tweet", "complete"})
       => /\ calls # <<>> /\ calls[1].op = "capture_file"
          /\ StartsWith(calls[1].a, "test_") <=> is_testing
          /\ mode_sim_cam_image
                => /\ Len(calls) >= 2 /\ calls[2].op = "get_test_image"
                   /\ image_file = calls[2].a /\ image_file # calls[1].a
                   /\ \A i \in 3..Len(calls) :
                         IF calls[i].op \in {"access_token_expired", "refresh"}
                         THEN TRUE
                         ELSE /\ UsesImage(calls[i], calls[2].a)
                              /\ ~UsesImage(calls[i], calls[1].a)
          /\ ~mode_sim_cam_image
                => /\ "get_test_image" \notin CallOps
                   /\ image_file = calls[1].a
                   /\ \A i \in 1..Len(calls) : UsesImage(calls[i], calls[1].a)

\* a complete run on the captured file of a test without GPIO
C26_Witness ==
    /\ hpc = "complete" /\ ~mode_sim_cam_image /\ mode_no_gpio /\ is_testing
    /\ CLASSIFY_ON /\ GDRIVE_ON /\ TWEET_ON
    /\ image_file = "test_2023-10-01_000000.jpg"
    /\ OkCalls("Upload") # {} /\ OkCalls("create_tweet") # {}

NoLabelClassified ==
    CLASSIFY_ON /\ OkCalls("predict_catmon_image") # {} /\ cfn[1] = NoneStr

====
